---- MODULE Spec2Model ----
(***************************************************************************)
(* Model of scripts/upload_backup.py: a run logs in, uploads the newest    *)
(* local backup sets (Docker, storage snapshot/monthly, Bitwarden exports) *)
(* to a remote folder tree and prunes old remote generations.              *)
(*                                                                         *)
(* Names are strings over a small alphabet of tokens (<<"nightly","-",     *)
(* "1">> is "nightly-1").  A remote entry is [id, name, date]; a missing   *)
(* "date" field is date 0, which is what f.get("date", 0) reads.           *)
(*                                                                         *)
(* Spec is one run of main() from any of a set of local and remote         *)
(* layouts; SweepSpec is cleanup_two_types / cleanup_storage_types called  *)
(* twice in a row with any keep counts on any short listing; RerunSpec is  *)
(* the script run up to MaxRuns times on a host with storage exports only. *)
(* A call of                                                               *)
(* upload_file or cleanup_* runs in its own frame (up, sweep) while main   *)
(* waits; an exception nothing catches ends the run (pc = "aborted").      *)
(***************************************************************************)
EXTENDS Integers, Sequences, FiniteSets, TLC

(* ---------------- bounds of the model ---------------- *)
MaxLen == 3        \* longest remote listing the sweep harness starts from
MaxDate == 1       \* largest "date" of a listed entry in the sweep harness
MaxKeep == 2       \* largest keep count the sweep harness passes
MaxNightly == 2    \* most nightly- folders the remote holds when a run starts
MaxSnapshots == 2  \* most snapshot- folders the remote holds when a run starts
MaxMonthly == 1    \* most monthly- folders the remote holds when a run starts
MaxRuns == 3       \* most runs of the script in a row

(* ---------------- configuration (upload_backup.py:31-57) ---------------- *)
DOCKER_PARENT_FOLDER_ID == 17922957
STORAGE_PARENT_FOLDER_ID == 17922958
BITWARDEN_PARENT_FOLDER_ID == 17922956
KEEP_NIGHTLY == 2
KEEP_BIWEEKLY == 5
KEEP_MONTHLY == 1
KEEP_SNAPSHOT == 1
KEEP_BITWARDEN == 10
LIST_LIMIT == 200
MAX_UPLOAD_RETRIES == 3
RETRY_DELAY == 5

VARIABLES
    folders,          \* remote: parent id -> child folders, in listing order
    files,            \* remote: folder id -> child files, in listing order
    nextId,           \* remote: id the service gives the next new entry
    clock,            \* remote: date the service gives the next new entry
    local,            \* the local filesystem under the three backup roots
    pc,               \* position of main()
    cloud_folder_id,  \* main / uploader local: folder being filled
    todo,             \* files of the current set still to upload, sorted
    sweep,            \* frame of the running cleanup_* call
    up,               \* frame of the running upload_file call
    log,              \* remote calls issued so far in this run, in order
    validation_key,   \* main local: the token login returned ("unset" before login)
    run               \* number of the run of the script, from 1

vars ==
    <<folders, files, nextId, clock, local, pc, cloud_folder_id, todo, sweep, up, log,
      validation_key, run>>

(* ---------------- strings ---------------- *)
NIGHTLY == <<"nightly", "-">>
BIWEEKLY == <<"biweekly", "-">>
MONTHLY == <<"monthly", "-">>
SNAPSHOT == <<"snapshot", "-">>

\* a prefix test that compares the leading word only
StartsWithFirstWord(name, prefix) ==
    /\ Len(name) >= Len(prefix)
    /\ name[1] = prefix[1]

\* str.startswith(prefix)
StartsWith(name, prefix) ==
    /\ Len(name) >= Len(prefix)
    /\ SubSeq(name, 1, Len(prefix)) = prefix

(* ---------------- list helpers ---------------- *)
Min(a, b) == IF a < b THEN a ELSE b
Max(a, b) == IF a > b THEN a ELSE b

\* f.get("date", 0)
DateKey(f) == f.date

\* [f for f in folders if f.get("name", "").startswith(prefix)]
Matching(listing, prefix) ==
    SelectSeq(listing, LAMBDA f : StartsWith(f.name, prefix))

\* insert f after every element whose key is <= its own (keeps equal keys in order)
RECURSIVE InsertByDate(_, _)
InsertByDate(sorted, f) ==
    IF sorted = <<>> THEN <<f>>
    ELSE IF DateKey(Head(sorted)) <= DateKey(f)
         THEN <<Head(sorted)>> \o InsertByDate(Tail(sorted), f)
         ELSE <<f>> \o sorted

RECURSIVE SortedFrom(_, _)
SortedFrom(acc, rest) ==
    IF rest = <<>> THEN acc
    ELSE SortedFrom(InsertByDate(acc, Head(rest)), Tail(rest))

SortedUnstable(listing) == SortedFrom(<<>>, [i \in 1..Len(listing) |-> listing[Len(listing) + 1 - i]])

\* the sort as it would be with reverse=True: newest first
SortedNewestFirst(listing) ==
    LET asc == SortedFrom(<<>>, listing)
    IN  [i \in 1..Len(asc) |-> asc[Len(asc) + 1 - i]]

\* sorted(listing, key=lambda f: f.get("date", 0)): ascending and stable
SortedByDate(listing) == SortedFrom(<<>>, listing)

SliceFirstKeep(s, keep) == SubSeq(s, 1, Min(keep, Len(s)))

\* s[:-keep] as Python evaluates it: the stop index -keep counts from the end
\* when negative, and is the plain index 0 when keep = 0
SliceBeforeLast(s, keep) ==
    LET stop == IF -keep < 0 THEN Max(Len(s) - keep, 0) ELSE Min(-keep, Len(s))
    IN  SubSeq(s, 1, stop)

\* the entries one for-loop of a cleanup function deletes
Stale(listing, prefix, keep) ==
    SliceBeforeLast(SortedByDate(Matching(listing, prefix)), keep)

(* ---------------- remote service ---------------- *)
\* the entries the remote holds under parent, oldest listing position first
Children(tree, parent) == IF parent \in DOMAIN tree THEN tree[parent] ELSE <<>>

\* the answer to ...?action=list&parentid={parent}&limit=200
Listing(tree, parent) ==
    SubSeq(Children(tree, parent), 1, Min(Len(Children(tree, parent)), LIST_LIMIT))

\* soft-delete: the entry leaves every listing

WithoutId(tree, id) ==
    [p \in DOMAIN tree |-> SelectSeq(tree[p], LAMBDA e : e.id # id)]

Call(op, target, name) == [op |-> op, target |-> target, name |-> name]

(* ---------------- frames ---------------- *)
SweepIdle ==
    [pc |-> "idle", fn |-> "none", parent_id |-> 0, keep |-> <<>>, folder_id |-> 0,
     listing |-> <<>>, bucket |-> 0, queue |-> <<>>, attempted |-> <<>>, failed |-> <<>>,
     round |-> 0]

\* exceptions upload_file catches and retries (requests.exceptions)
TransportErrors == {"ChunkedEncodingError", "ConnectionError", "Timeout"}

NoExc == [exc |-> "None", attempt |-> 0]

UpIdle ==
    [pc |-> "idle", file |-> <<>>, folder_id |-> 0, attempt |-> 0, fh |-> 0, opens |-> 0,
     last_exc |-> NoExc, hist |-> <<>>, delays |-> 0, slept |-> 0, after |-> "none",
     result |-> "none", error |-> NoExc]

\* the frame of a fresh call upload_file(session, validation_key, folder_id, file_path),
\* at the top of the for-loop: last_exc = None, attempt = 1
UploadCall(folder_id, file) ==
    [UpIdle EXCEPT !.pc = "try", !.file = file, !.folder_id = folder_id, !.attempt = 1]

\* the name prefixes of the buckets of a cleanup function, in the order it sweeps them
SweepPrefixes(fn) ==
    IF fn = "cleanup_two_types" THEN <<NIGHTLY, BIWEEKLY>>
    ELSE IF fn = "cleanup_storage_types" THEN <<MONTHLY, SNAPSHOT>>
    ELSE <<>>

\* the frame of a fresh call cleanup_*(session, validation_key, parent_id, keep...)
SweepCall(fn, parent_id, keep, round) ==
    [pc |-> "list", fn |-> fn, parent_id |-> parent_id, keep |-> keep, folder_id |-> 0,
     listing |-> <<>>, bucket |-> 0, queue |-> <<>>, attempted |-> <<>>, failed |-> <<>>,
     round |-> round]

\* no cleanup_* and no upload_file call is on the stack
SubIdle == sweep.pc \in {"idle", "returned"} /\ up.pc = "idle"

(* ---------------- retention & cleanup ---------------- *)
\* folders = list_child_folders(...) at the top of a cleanup function; an HTTP
\* error of the listing propagates out of the function and ends the run
SweepList ==
    /\ sweep.pc = "list"
    /\ log' = Append(log, Call("list", sweep.parent_id, <<>>))
    /\ \E ok \in BOOLEAN :
        LET listed == Listing(folders, sweep.parent_id) IN
        IF ~ok
        THEN /\ sweep' = [sweep EXCEPT !.pc = "raised"]
             /\ pc' = "aborted"
        ELSE /\ pc' = pc
             /\ IF sweep.fn = "cleanup_bitwarden_backups"
                THEN IF listed = <<>>
                     THEN sweep' = [sweep EXCEPT !.pc = "returned"]
                     ELSE sweep' = [sweep EXCEPT !.pc = "list_files",
                                                 !.folder_id = listed[1].id]
                ELSE sweep' = [sweep EXCEPT
                                 !.pc = "loop", !.listing = listed, !.bucket = 1,
                                 !.queue = Stale(listed, SweepPrefixes(sweep.fn)[1], sweep.keep[1])]
    /\ UNCHANGED <<folders, files, nextId, clock, local, cloud_folder_id, todo, up>>
    /\ UNCHANGED <<validation_key, run>>

\* cleanup_bitwarden_backups: the second listing, of the files of folders[0]
SweepListFiles ==
    /\ sweep.pc = "list_files"
    /\ log' = Append(log, Call("list_files", sweep.folder_id, <<>>))
    /\ \E ok \in BOOLEAN :
        LET listed == Listing(files, sweep.folder_id) IN
        IF ~ok
        THEN /\ sweep' = [sweep EXCEPT !.pc = "raised"]
             /\ pc' = "aborted"
        ELSE /\ pc' = pc
             /\ sweep' = [sweep EXCEPT
                            !.pc = "loop", !.listing = listed, !.bucket = 1,
                            !.queue = SliceBeforeLast(SortedByDate(listed), sweep.keep[1])]
    /\ UNCHANGED <<folders, files, nextId, clock, local, cloud_folder_id, todo, up>>
    /\ UNCHANGED <<validation_key, run>>

\* one iteration of a for-loop: soft_delete_folder answers 2xx, the entry leaves
\* the remote listings
SweepDeleteOk ==
    /\ sweep.pc = "loop"
    /\ sweep.queue # <<>>
    /\ LET f == Head(sweep.queue) IN
        /\ log' = Append(log, Call("delete", f.id, f.name))
        /\ folders' = WithoutId(folders, f.id)
        /\ files' = WithoutId(files, f.id)
        /\ sweep' = [sweep EXCEPT !.queue = Tail(sweep.queue),
                                  !.attempted = Append(sweep.attempted, f.id)]
    /\ UNCHANGED <<nextId, clock, local, pc, cloud_folder_id, todo, up>>
    /\ UNCHANGED <<validation_key, run>>

\* one iteration of a for-loop: soft_delete_folder raises (r.raise_for_status());
\* nothing catches it, so it leaves the loop, the cleanup function and main
SweepDeleteFails ==
    /\ sweep.pc = "loop"
    /\ sweep.queue # <<>>
    /\ LET f == Head(sweep.queue) IN
        /\ log' = Append(log, Call("delete", f.id, f.name))
        /\ sweep' = [sweep EXCEPT !.pc = "raised",
                                  !.attempted = Append(sweep.attempted, f.id),
                                  !.failed = Append(sweep.failed, f.id)]
    /\ pc' = "aborted"
    /\ UNCHANGED <<folders, files, nextId, clock, local, cloud_folder_id, todo, up>>
    /\ UNCHANGED <<validation_key, run>>

\* the first for-loop is over: filter, sort and slice the same listing for the
\* second bucket
SweepNextBucket ==
    /\ sweep.pc = "loop"
    /\ sweep.queue = <<>>
    /\ sweep.bucket < Len(sweep.keep)
    /\ sweep' = [sweep EXCEPT
                   !.bucket = sweep.bucket + 1,
                   !.queue = Stale(sweep.listing, SweepPrefixes(sweep.fn)[sweep.bucket + 1],
                                   sweep.keep[sweep.bucket + 1])]
    /\ UNCHANGED <<folders, files, nextId, clock, local, pc, cloud_folder_id, todo, up, log>>
    /\ UNCHANGED <<validation_key, run>>

\* the last for-loop is over: the cleanup function returns
SweepReturn ==
    /\ sweep.pc = "loop"
    /\ sweep.queue = <<>>
    /\ sweep.bucket = Len(sweep.keep)
    /\ sweep' = [sweep EXCEPT !.pc = "returned"]
    /\ UNCHANGED <<folders, files, nextId, clock, local, pc, cloud_folder_id, todo, up, log>>
    /\ UNCHANGED <<validation_key, run>>

(* ---------------- upload_file ---------------- *)
\* a new entry under parent, as the remote lists it afterwards
Put(tree, parent, entry) ==
    [p \in DOMAIN tree \cup {parent} |->
        IF p = parent THEN Append(Children(tree, p), entry) ELSE tree[p]]

\* fh = open(file_path, "rb") at the top of the try block
UploadOpen ==
    /\ up.pc = "try"
    /\ up' = [up EXCEPT !.pc = "post", !.fh = up.fh + 1, !.opens = up.opens + 1]
    /\ UNCHANGED <<folders, files, nextId, clock, local, pc, cloud_folder_id, todo, sweep, log>>
    /\ UNCHANGED <<validation_key, run>>

\* session.post answers 2xx: return r.json(); the remote now lists the file
UploadPostAck ==
    /\ up.pc = "post"
    /\ up' = [up EXCEPT !.pc = "finally", !.after = "return", !.result = "ack",
                        !.hist = Append(up.hist, "ack")]
    /\ files' = Put(files, up.folder_id, [id |-> nextId, name |-> up.file, date |-> clock])
    /\ nextId' = nextId + 1
    /\ clock' = clock + 1
    /\ UNCHANGED <<folders, local, pc, cloud_folder_id, todo, sweep, log>>
    /\ UNCHANGED <<validation_key, run>>

\* an HTTPError handled like a transport failure
UploadPostHttpRetried ==
    /\ up.pc = "post"
    /\ up' = [up EXCEPT !.pc = "sleep", !.hist = Append(up.hist, "HTTPError")]
    /\ UNCHANGED <<folders, files, nextId, clock, local, pc, cloud_folder_id, todo, sweep, log>>
    /\ UNCHANGED <<validation_key, run>>

\* session.post raises ChunkedEncodingError, ConnectionError or Timeout:
\* last_exc = exc, then the sleep
UploadPostTransport ==
    /\ up.pc = "post"
    /\ \E exc \in TransportErrors :
        up' = [up EXCEPT !.pc = "sleep", !.hist = Append(up.hist, exc),
                         !.last_exc = [exc |-> exc, attempt |-> up.attempt]]
    /\ UNCHANGED <<folders, files, nextId, clock, local, pc, cloud_folder_id, todo, sweep, log>>
    /\ UNCHANGED <<validation_key, run>>

\* r.raise_for_status() raises HTTPError: raise RuntimeError("HTTP error during upload")
UploadPostHttp ==
    /\ up.pc = "post"
    /\ up' = [up EXCEPT !.pc = "finally", !.after = "raise",
                        !.hist = Append(up.hist, "HTTPError"),
                        !.error = [exc |-> "HTTPError", attempt |-> up.attempt]]
    /\ UNCHANGED <<folders, files, nextId, clock, local, pc, cloud_folder_id, todo, sweep, log>>
    /\ UNCHANGED <<validation_key, run>>

\* time.sleep(RETRY_DELAY), still inside the except clause (the file is open)
UploadSleep ==
    /\ up.pc = "sleep"
    /\ up' = [up EXCEPT !.pc = "finally", !.after = "loop",
                        !.delays = up.delays + 1, !.slept = up.slept + RETRY_DELAY]
    /\ UNCHANGED <<folders, files, nextId, clock, local, pc, cloud_folder_id, todo, sweep, log>>
    /\ UNCHANGED <<validation_key, run>>

\* the finally clause as it would be if a pending raise skipped fh.close()
UploadFinallyLeaksOnRaise ==
    /\ up.pc = "finally"
    /\ up' =
        IF up.after = "return" THEN [up EXCEPT !.pc = "return", !.fh = up.fh - 1]
        ELSE IF up.after = "raise" THEN [up EXCEPT !.pc = "raise"]
        ELSE IF up.attempt < MAX_UPLOAD_RETRIES
        THEN [up EXCEPT !.pc = "try", !.fh = up.fh - 1, !.attempt = up.attempt + 1,
                        !.after = "none"]
        ELSE [up EXCEPT !.pc = "raise", !.fh = up.fh - 1, !.error = up.last_exc]
    /\ UNCHANGED <<folders, files, nextId, clock, local, pc, cloud_folder_id, todo, sweep, log>>
    /\ UNCHANGED <<validation_key, run>>

\* the for-loop with one turn too many
UploadFinallyOneMore ==
    /\ up.pc = "finally"
    /\ up' =
        IF up.after = "return" THEN [up EXCEPT !.pc = "return", !.fh = up.fh - 1]
        ELSE IF up.after = "raise" THEN [up EXCEPT !.pc = "raise", !.fh = up.fh - 1]
        ELSE IF up.attempt <= MAX_UPLOAD_RETRIES
        THEN [up EXCEPT !.pc = "try", !.fh = up.fh - 1, !.attempt = up.attempt + 1,
                        !.after = "none"]
        ELSE [up EXCEPT !.pc = "raise", !.fh = up.fh - 1, !.error = up.last_exc]
    /\ UNCHANGED <<folders, files, nextId, clock, local, pc, cloud_folder_id, todo, sweep, log>>
    /\ UNCHANGED <<validation_key, run>>

\* finally: fh.close(); then the return or raise that was pending, or the next
\* turn of for attempt in range(1, MAX_UPLOAD_RETRIES + 1), or after the last
\* turn raise RuntimeError("Failed uploading ... last error: {last_exc}")
UploadFinally ==
    /\ up.pc = "finally"
    /\ up' =
        IF up.after = "return" THEN [up EXCEPT !.pc = "return", !.fh = up.fh - 1]
        ELSE IF up.after = "raise" THEN [up EXCEPT !.pc = "raise", !.fh = up.fh - 1]
        ELSE IF up.attempt < MAX_UPLOAD_RETRIES
        THEN [up EXCEPT !.pc = "try", !.fh = up.fh - 1, !.attempt = up.attempt + 1,
                        !.after = "none"]
        ELSE [up EXCEPT !.pc = "raise", !.fh = up.fh - 1, !.error = up.last_exc]
    /\ UNCHANGED <<folders, files, nextId, clock, local, pc, cloud_folder_id, todo, sweep, log>>
    /\ UNCHANGED <<validation_key, run>>

\* upload_file returns the ack to its caller
UploadReturn ==
    /\ up.pc = "return"
    /\ up' = UpIdle
    /\ UNCHANGED <<folders, files, nextId, clock, local, pc, cloud_folder_id, todo, sweep, log>>
    /\ UNCHANGED <<validation_key, run>>

\* the RuntimeError as it would be if the caller caught it and went on
UploadRaiseSwallowed ==
    /\ up.pc = "raise"
    /\ up' = [up EXCEPT !.pc = "idle"]
    /\ pc' = pc
    /\ UNCHANGED <<folders, files, nextId, clock, local, cloud_folder_id, todo, sweep, log>>
    /\ UNCHANGED <<validation_key, run>>

\* the RuntimeError leaves upload_file; no caller catches it
UploadRaise ==
    /\ up.pc = "raise"
    /\ up' = [up EXCEPT !.pc = "raised"]
    /\ pc' = "aborted"
    /\ UNCHANGED <<folders, files, nextId, clock, local, cloud_folder_id, todo, sweep, log>>
    /\ UNCHANGED <<validation_key, run>>

(* ---------------- local filesystem ---------------- *)
\* the tokens of local names, in the order of their first characters
Alphabet ==
    <<"-", ".json", ".tar", ".txt", "1", "2", "3", "a", "b", "backups", "bitwarden",
      "biweekly", "e", "monthly", "nightly", "notes", "snapshot", "tmp">>

Rank(tok) == CHOOSE i \in 1..Len(Alphabet) : Alphabet[i] = tok

\* a < b for two names (string comparison)
RECURSIVE NameLess(_, _)
NameLess(a, b) ==
    IF b = <<>> THEN FALSE
    ELSE IF a = <<>> THEN TRUE
    ELSE IF Head(a) = Head(b) THEN NameLess(Tail(a), Tail(b))
    ELSE Rank(Head(a)) < Rank(Head(b))

\* sorted(d.iterdir()) for the entries of one directory (their names differ)
RECURSIVE SortedByName(_)
SortedByName(entries) ==
    IF entries = {} THEN <<>>
    ELSE LET first == CHOOSE x \in entries :
                        \A y \in entries \ {x} : NameLess(x.name, y.name)
         IN  <<first>> \o SortedByName(entries \ {first})

\* Path.suffix: the last ".ext" of a name that is more than the extension
Suffix(name) ==
    IF Len(name) >= 2 /\ name[Len(name)] \in {".json", ".tar", ".txt"}
    THEN name[Len(name)] ELSE ""

File(name) == [name |-> name, is_file |-> TRUE]
SubDir(name) == [name |-> name, is_file |-> FALSE]
Dir(name, mtime, entries) == [name |-> name, mtime |-> mtime, entries |-> entries]

\* None, where a directory is expected
NoDir == Dir(<<>>, 0, {})

\* get_latest_folder_in(root_dir): the subdirectory with the largest st_mtime,
\* None when the root is missing or holds no directory
get_latest_folder_in(dirs) ==
    IF dirs = {} THEN NoDir
    ELSE CHOOSE d \in dirs : \A e \in dirs : e.mtime <= d.mtime

latest_backup == get_latest_folder_in(local.docker)

latest_monthly == get_latest_folder_in(local.storage.monthly)

\* max(snapshot_dirs, key=mtime) over the directories named snapshot-* under the root
latest_snapshot ==
    get_latest_folder_in({d \in local.storage.root : StartsWith(d.name, SNAPSHOT)})

BITWARDEN_FOLDER == <<"bitwarden", "-", "backups">>

(* ---------------- main flow ---------------- *)
CreatePcs == {"docker_create", "snapshot_create", "monthly_create", "bw_create"}
UploadPcs == {"docker_upload", "snapshot_upload", "monthly_upload"}
CheckPcs == {"snapshot_check", "monthly_check"}

\* the local backup set the code at p works on
SetAt(p) ==
    CASE p \in {"docker_create", "docker_upload"} -> latest_backup
      [] p \in {"snapshot_check", "snapshot_create", "snapshot_upload"} -> latest_snapshot
      [] p \in {"monthly_check", "monthly_create", "monthly_upload"} -> latest_monthly
      [] OTHER -> Dir(BITWARDEN_FOLDER, 0, local.bitwarden.entries)

\* the remote parent the code at p passes
ParentAt(p) ==
    CASE p \in {"docker_create", "docker_upload"} -> DOCKER_PARENT_FOLDER_ID
      [] p = "bw_create" -> BITWARDEN_PARENT_FOLDER_ID
      [] OTHER -> STORAGE_PARENT_FOLDER_ID

\* the flow as it would be if an uploaded snapshot ended the Storage phase
AfterSnapshotEndsStorage(p) ==
    CASE p = "docker_create" -> "docker_upload"
      [] p = "docker_upload" -> "storage"
      [] p = "snapshot_check" -> "monthly_check"
      [] p = "snapshot_create" -> "snapshot_upload"
      [] p = "snapshot_upload" -> "bitwarden"
      [] p = "monthly_check" -> "bitwarden"
      [] p = "monthly_create" -> "monthly_upload"
      [] p = "monthly_upload" -> "bitwarden"
      [] p = "bw_create" -> "bw_loop"
      [] OTHER -> "done"

\* where the code goes after p
After(p) ==
    CASE p = "docker_create" -> "docker_upload"
      [] p = "docker_upload" -> "storage"
      [] p = "snapshot_check" -> "monthly_check"
      [] p = "snapshot_create" -> "snapshot_upload"
      [] p = "snapshot_upload" -> "monthly_check"
      [] p = "monthly_check" -> "bitwarden"
      [] p = "monthly_create" -> "monthly_upload"
      [] p = "monthly_upload" -> "bitwarden"
      [] p = "bw_create" -> "bw_loop"
      [] OTHER -> "done"

\* any(f.get("name") == local_folder_name for f in folders)
HasName(listing, name) == \E i \in 1..Len(listing) : listing[i].name = name

\* a check that never finds the name
CloudNeverHasFolder(parent_id, name) == FALSE

\* cloud_has_folder(session, validation_key, parent_id, name), the listing having succeeded
cloud_has_folder(parent_id, name) == HasName(Listing(folders, parent_id), name)

\* login as it would be without the check of the token
MainLoginKeyUnchecked ==
    /\ pc = "start"
    /\ log' = Append(log, Call("login", 0, <<>>))
    /\ \E outcome \in {"ok", "http_error", "no_validationkey"} :
        /\ pc' = IF outcome = "http_error" THEN "aborted" ELSE "docker"
        /\ validation_key' = IF outcome = "ok" THEN "key"
                             ELSE IF outcome = "no_validationkey" THEN "None"
                             ELSE validation_key
    /\ UNCHANGED <<folders, files, nextId, clock, local, cloud_folder_id, todo, sweep, up, run>>

\* validation_key = login(session): two requests and the token; any failure ends the run
MainLogin ==
    /\ pc = "start"
    /\ log' = Append(log, Call("login", 0, <<>>))
    /\ \E outcome \in {"ok", "http_error", "no_validationkey"} :
        /\ pc' = IF outcome = "ok" THEN "docker" ELSE "aborted"
        /\ validation_key' = IF outcome = "ok" THEN "key"
                             ELSE IF outcome = "no_validationkey" THEN "None"
                             ELSE validation_key
    /\ UNCHANGED <<folders, files, nextId, clock, local, cloud_folder_id, todo, sweep, up, run>>

\* if latest_backup:
MainDockerLatest ==
    /\ pc = "docker"
    /\ pc' = IF latest_backup = NoDir THEN "storage" ELSE "docker_create"
    /\ UNCHANGED <<folders, files, nextId, clock, local, cloud_folder_id, todo, sweep, up, log>>
    /\ UNCHANGED <<validation_key, run>>

\* cloud_folder_id = create_cloud_folder(session, validation_key, name, parent);
\* then the for-loop over sorted(set.iterdir()) starts
MainCreate ==
    /\ pc \in CreatePcs
    /\ log' = Append(log, Call("create", ParentAt(pc), SetAt(pc).name))
    /\ \E ok \in BOOLEAN :
        IF ok
        THEN /\ folders' = Put(folders, ParentAt(pc),
                               [id |-> nextId, name |-> SetAt(pc).name, date |-> clock])
             /\ cloud_folder_id' = nextId
             /\ nextId' = nextId + 1
             /\ clock' = clock + 1
             /\ todo' = SortedByName(SetAt(pc).entries)
             /\ pc' = After(pc)
        ELSE /\ pc' = "aborted"
             /\ UNCHANGED <<folders, cloud_folder_id, nextId, clock, todo>>
    /\ UNCHANGED <<files, local, sweep, up>>
    /\ UNCHANGED <<validation_key, run>>

\* the loop turn as it would be if upload_file did not block until its outcome
MainUploadNextEarly ==
    /\ pc \in UploadPcs
    /\ sweep.pc \in {"idle", "returned"}
    /\ todo # <<>>
    /\ todo' = Tail(todo)
    /\ IF Head(todo).is_file
       THEN /\ up' = UploadCall(cloud_folder_id, Head(todo).name)
            /\ log' = Append(log, Call("upload", cloud_folder_id, Head(todo).name))
       ELSE UNCHANGED <<up, log>>
    /\ UNCHANGED <<folders, files, nextId, clock, local, pc, cloud_folder_id, sweep>>
    /\ UNCHANGED <<validation_key, run>>

\* one turn of for p in sorted(...): if p.is_file(): upload_file(...)
MainUploadNext ==
    /\ pc \in UploadPcs
    /\ SubIdle
    /\ todo # <<>>
    /\ todo' = Tail(todo)
    /\ IF Head(todo).is_file
       THEN /\ up' = UploadCall(cloud_folder_id, Head(todo).name)
            /\ log' = Append(log, Call("upload", cloud_folder_id, Head(todo).name))
       ELSE UNCHANGED <<up, log>>
    /\ UNCHANGED <<folders, files, nextId, clock, local, pc, cloud_folder_id, sweep>>
    /\ UNCHANGED <<validation_key, run>>

\* the loop is over: cleanup_two_types(...) or cleanup_storage_types(...)
MainSweep ==
    /\ pc \in UploadPcs
    /\ SubIdle
    /\ todo = <<>>
    /\ sweep' = IF pc = "docker_upload"
                THEN SweepCall("cleanup_two_types", DOCKER_PARENT_FOLDER_ID,
                               <<KEEP_NIGHTLY, KEEP_BIWEEKLY>>, 0)
                ELSE SweepCall("cleanup_storage_types", STORAGE_PARENT_FOLDER_ID,
                               <<KEEP_MONTHLY, KEEP_SNAPSHOT>>, 0)
    /\ pc' = After(pc)
    /\ UNCHANGED <<folders, files, nextId, clock, local, cloud_folder_id, todo, up, log>>
    /\ UNCHANGED <<validation_key, run>>

\* upload_new_storage_backups: if not root.exists(): return
MainStorageRoot ==
    /\ pc = "storage"
    /\ SubIdle
    /\ pc' = IF local.storage.exists THEN "snapshot_check" ELSE "bitwarden"
    /\ UNCHANGED <<folders, files, nextId, clock, local, cloud_folder_id, todo, sweep, up, log>>
    /\ UNCHANGED <<validation_key, run>>

\* if latest_x and not cloud_has_folder(session, validation_key, STORAGE_PARENT_FOLDER_ID, latest_x.name):
MainCheck ==
    /\ pc \in CheckPcs
    /\ SubIdle
    /\ IF SetAt(pc) = NoDir
       THEN /\ pc' = After(pc)
            /\ log' = log
       ELSE /\ log' = Append(log, Call("list", STORAGE_PARENT_FOLDER_ID, <<>>))
            /\ \E ok \in BOOLEAN :
                pc' = IF ~ok THEN "aborted"
                      ELSE IF cloud_has_folder(STORAGE_PARENT_FOLDER_ID, SetAt(pc).name)
                      THEN After(pc)
                      ELSE IF pc = "snapshot_check" THEN "snapshot_create"
                      ELSE "monthly_create"
    /\ UNCHANGED <<folders, files, nextId, clock, local, cloud_folder_id, todo, sweep, up>>
    /\ UNCHANGED <<validation_key, run>>

\* upload_bitwarden_backups: if not root.exists(): return; else
\* cloud_folders = list_child_folders(session, validation_key, BITWARDEN_PARENT_FOLDER_ID)
MainBitwardenRoot ==
    /\ pc = "bitwarden"
    /\ SubIdle
    /\ IF ~local.bitwarden.exists
       THEN /\ pc' = "done"
            /\ UNCHANGED <<log, cloud_folder_id, todo>>
       ELSE /\ log' = Append(log, Call("list", BITWARDEN_PARENT_FOLDER_ID, <<>>))
            /\ \E ok \in BOOLEAN :
                LET cloud_folders == Listing(folders, BITWARDEN_PARENT_FOLDER_ID) IN
                IF ~ok
                THEN pc' = "aborted" /\ UNCHANGED <<cloud_folder_id, todo>>
                ELSE IF cloud_folders # <<>>
                THEN /\ cloud_folder_id' = cloud_folders[1].id
                     /\ todo' = SortedByName(local.bitwarden.entries)
                     /\ pc' = "bw_loop"
                ELSE pc' = "bw_create" /\ UNCHANGED <<cloud_folder_id, todo>>
    /\ UNCHANGED <<folders, files, nextId, clock, local, sweep, up>>
    /\ UNCHANGED <<validation_key, run>>

\* one turn of for f in sorted(root.iterdir()): a .json file is uploaded unless
\* cloud_has_folder(session, validation_key, cloud_folder_id, f.name)
MainBitwardenNext ==
    /\ pc = "bw_loop"
    /\ SubIdle
    /\ todo # <<>>
    /\ LET f == Head(todo) IN
        IF ~(f.is_file /\ Suffix(f.name) = ".json")
        THEN /\ todo' = Tail(todo)
             /\ UNCHANGED <<pc, up, log>>
        ELSE \E ok \in BOOLEAN :
            IF ~ok
            THEN /\ log' = Append(log, Call("list", cloud_folder_id, <<>>))
                 /\ pc' = "aborted"
                 /\ UNCHANGED <<todo, up>>
            ELSE IF cloud_has_folder(cloud_folder_id, f.name)
            THEN /\ log' = Append(log, Call("list", cloud_folder_id, <<>>))
                 /\ todo' = Tail(todo)
                 /\ UNCHANGED <<pc, up>>
            ELSE /\ log' = log \o <<Call("list", cloud_folder_id, <<>>),
                                    Call("upload", cloud_folder_id, f.name)>>
                 /\ up' = UploadCall(cloud_folder_id, f.name)
                 /\ todo' = Tail(todo)
                 /\ pc' = pc
    /\ UNCHANGED <<folders, files, nextId, clock, local, cloud_folder_id, sweep>>
    /\ UNCHANGED <<validation_key, run>>

\* cleanup_bitwarden_backups(session, validation_key, cloud_folder_id, KEEP_BITWARDEN)
MainBitwardenSweep ==
    /\ pc = "bw_loop"
    /\ SubIdle
    /\ todo = <<>>
    /\ sweep' = SweepCall("cleanup_bitwarden_backups", cloud_folder_id, <<KEEP_BITWARDEN>>, 0)
    /\ pc' = "finish"
    /\ UNCHANGED <<folders, files, nextId, clock, local, cloud_folder_id, todo, up, log>>
    /\ UNCHANGED <<validation_key, run>>

\* main returns
MainDone ==
    /\ pc = "finish"
    /\ SubIdle
    /\ pc' = "done"
    /\ UNCHANGED <<folders, files, nextId, clock, local, cloud_folder_id, todo, sweep, up, log>>
    /\ UNCHANGED <<validation_key, run>>

(* ---------------- a run ---------------- *)
Num == <<"1", "2", "3", "4", "5", "6", "7", "8", "9", "10", "11", "12">>

\* n remote entries prefix1 .. prefixn, created in that order
RemoteEntries(n, prefix, suffix, baseId) ==
    [i \in 1..n |-> [id |-> baseId + i, name |-> prefix \o <<Num[i]>> \o suffix, date |-> i]]

\* /backups/docker-tar: empty, or two backup sets of which nightly-2 is the newest
DockerLocals ==
    { {},
      { Dir(NIGHTLY \o <<"2">>, 5,
            {File(<<"b", ".tar">>), File(<<"a", ".tar">>), SubDir(<<"tmp">>)}),
        Dir(NIGHTLY \o <<"3">>, 1, {File(<<"a", ".tar">>)}) } }

\* /backups/storage-exports: missing, or snapshot-1, snapshot-2 and monthly/monthly-1
StorageLocals ==
    { [exists |-> FALSE, root |-> {}, monthly |-> {}],
      [exists |-> TRUE,
       root |-> { Dir(SNAPSHOT \o <<"1">>, 1, {File(<<"a", ".tar">>)}),
                  Dir(SNAPSHOT \o <<"2">>, 2, {File(<<"a", ".tar">>)}),
                  Dir(<<"monthly">>, 3, {}) },
       monthly |-> { Dir(MONTHLY \o <<"1">>, 1, {File(<<"a", ".tar">>)}) }] }

\* /backups/bitwarden: missing, or two exports, a text file and a directory
BitwardenLocals ==
    { [exists |-> FALSE, entries |-> {}],
      [exists |-> TRUE,
       entries |-> { File(<<"e", "2", ".json">>), File(<<"e", "1", ".json">>),
                     File(<<"notes", ".txt">>), SubDir(<<"backups", ".json">>) }] }

\* the remote below BITWARDEN_PARENT_FOLDER_ID: nothing, or the folder
\* bitwarden-backups holding nF exports e1.json .. and, when sub, a child folder
\* that holds more than KEEP_BITWARDEN files
BitwardenRemote(present, nF, sub) ==
    IF ~present
    THEN [folders |-> (BITWARDEN_PARENT_FOLDER_ID :> <<>>), files |-> <<>>]
    ELSE [folders |->
             (BITWARDEN_PARENT_FOLDER_ID :>
                  <<[id |-> 300, name |-> BITWARDEN_FOLDER, date |-> 1]>>)
             @@ (300 :> IF sub THEN <<[id |-> 350, name |-> <<"backups">>, date |-> 1]>>
                        ELSE <<>>),
          files |->
             (300 :> RemoteEntries(nF, <<"e">>, <<".json">>, 400))
             @@ (350 :> IF sub
                        THEN RemoteEntries(KEEP_BITWARDEN + 1, <<"e">>, <<".json">>, 500)
                        ELSE <<>>)]

BitwardenRemotes ==
    {BitwardenRemote(FALSE, 0, FALSE)}
    \cup {BitwardenRemote(TRUE, nF, sub) :
            nF \in {0, 1, KEEP_BITWARDEN + 1}, sub \in BOOLEAN}

\* the id the remote gives to the first entry created during the runs; the
\* entries it holds before have smaller ids
FirstNewId == 1000

Init ==
    \E dl \in DockerLocals, sl \in StorageLocals, bl \in BitwardenLocals :
    \E nN \in 0..MaxNightly, nS \in 0..MaxSnapshots, nM \in 0..MaxMonthly :
    \E br \in BitwardenRemotes :
        /\ local = [docker |-> dl, storage |-> sl, bitwarden |-> bl]
        /\ folders =
              (DOCKER_PARENT_FOLDER_ID :> RemoteEntries(nN, NIGHTLY, <<>>, 100))
              @@ (STORAGE_PARENT_FOLDER_ID :>
                      RemoteEntries(nS, SNAPSHOT, <<>>, 200)
                      \o RemoteEntries(nM, MONTHLY, <<>>, 250))
              @@ br.folders
        /\ files = br.files
        /\ nextId = FirstNewId
        /\ clock = 100
        /\ pc = "start"
        /\ cloud_folder_id = 0
        /\ todo = <<>>
        /\ sweep = SweepIdle
        /\ up = UpIdle
        /\ log = <<>>
        /\ validation_key = "unset"
        /\ run = 1

Next ==
    \/ MainLogin
    \/ MainDockerLatest
    \/ MainCreate
    \/ MainUploadNext
    \/ MainSweep
    \/ MainStorageRoot
    \/ MainCheck
    \/ MainBitwardenRoot
    \/ MainBitwardenNext
    \/ MainBitwardenSweep
    \/ MainDone
    \/ UploadOpen
    \/ UploadPostAck
    \/ UploadPostTransport
    \/ UploadPostHttp
    \/ UploadSleep
    \/ UploadFinally
    \/ UploadReturn
    \/ UploadRaise
    \/ SweepList
    \/ SweepListFiles
    \/ SweepDeleteOk
    \/ SweepDeleteFails
    \/ SweepNextBucket
    \/ SweepReturn

Spec == Init /\ [][Next]_vars

(* ---------------- the cleanup functions on their own ---------------- *)
\* names a listing of the swept parent can hold: one per bucket and one of neither
HarnessNames(fn) ==
    IF fn = "cleanup_two_types"
    THEN {NIGHTLY \o <<"1">>, BIWEEKLY \o <<"1">>, <<"nightly", "1">>}
    ELSE {MONTHLY \o <<"1">>, SNAPSHOT \o <<"1">>, <<"snapshot", "1">>}

HarnessParent(fn) ==
    IF fn = "cleanup_two_types" THEN DOCKER_PARENT_FOLDER_ID ELSE STORAGE_PARENT_FOLDER_ID

NoLocal ==
    [docker |-> {},
     storage |-> [exists |-> FALSE, root |-> {}, monthly |-> {}],
     bitwarden |-> [exists |-> FALSE, entries |-> {}]]

\* cleanup_two_types / cleanup_storage_types called with any keep counts on any
\* listing of at most MaxLen folders
SweepInit ==
    \E fn \in {"cleanup_two_types", "cleanup_storage_types"} :
    \E n \in 0..MaxLen :
    \E names \in [1..n -> HarnessNames(fn)] :
    \E dates \in [1..n -> 0..MaxDate] :
    \E k1 \in 0..MaxKeep, k2 \in 0..MaxKeep :
        /\ folders = (HarnessParent(fn) :>
                        [i \in 1..n |-> [id |-> i, name |-> names[i], date |-> dates[i]]])
        /\ files = <<>>
        /\ nextId = n + 1
        /\ clock = MaxDate + 1
        /\ local = NoLocal
        /\ pc = "harness"
        /\ cloud_folder_id = 0
        /\ todo = <<>>
        /\ sweep = SweepCall(fn, HarnessParent(fn), <<k1, k2>>, 1)
        /\ up = UpIdle
        /\ log = <<>>
        /\ validation_key = "key"
        /\ run = 1

\* the same call again, right after the first one returned
SweepAgain ==
    /\ pc = "harness"
    /\ sweep.pc = "returned"
    /\ sweep.round = 1
    /\ sweep' = SweepCall(sweep.fn, sweep.parent_id, sweep.keep, 2)
    /\ UNCHANGED <<folders, files, nextId, clock, local, pc, cloud_folder_id, todo, up, log>>
    /\ UNCHANGED <<validation_key, run>>

SweepNext ==
    \/ SweepList
    \/ SweepDeleteOk
    \/ SweepDeleteFails
    \/ SweepNextBucket
    \/ SweepReturn
    \/ SweepAgain

SweepSpec == SweepInit /\ [][SweepNext]_vars

(* ---------------- the script run again and again ---------------- *)
\* the script is started again after a run has ended, with the same local data
\* and the remote as the earlier runs left it
MainRestart ==
    /\ pc \in {"done", "aborted"}
    /\ run < MaxRuns
    /\ run' = run + 1
    /\ pc' = "start"
    /\ cloud_folder_id' = 0
    /\ todo' = <<>>
    /\ sweep' = SweepIdle
    /\ up' = UpIdle
    /\ log' = <<>>
    /\ validation_key' = "unset"
    /\ UNCHANGED <<folders, files, nextId, clock, local>>

\* a host with storage exports only, and a remote with Storage folders only
RerunInit ==
    /\ Init
    /\ local.docker = {}
    /\ local.storage.exists
    /\ ~local.bitwarden.exists
    /\ Children(folders, DOCKER_PARENT_FOLDER_ID) = <<>>
    /\ Children(folders, BITWARDEN_PARENT_FOLDER_ID) = <<>>

RerunNext ==
    \/ MainLogin
    \/ MainDockerLatest
    \/ MainStorageRoot
    \/ MainCheck
    \/ MainCreate
    \/ MainUploadNext
    \/ MainSweep
    \/ MainBitwardenRoot
    \/ UploadOpen
    \/ UploadPostAck
    \/ UploadPostTransport
    \/ UploadPostHttp
    \/ UploadSleep
    \/ UploadFinally
    \/ UploadReturn
    \/ UploadRaise
    \/ SweepList
    \/ SweepDeleteOk
    \/ SweepDeleteFails
    \/ SweepNextBucket
    \/ SweepReturn
    \/ MainRestart

RerunSpec == RerunInit /\ [][RerunNext]_vars

(* ======================================================================== *)
(* Properties of the retention sweep (cleanup_two_types, cleanup_storage_types) *)
(* ======================================================================== *)
TwoBucketSweep == sweep.fn \in {"cleanup_two_types", "cleanup_storage_types"}

\* the sweep has listed its parent (its buckets are defined)
SweepListed == TwoBucketSweep /\ sweep.bucket >= 1

\* the entries of bucket b at the time of the sweep's listing, in listing order
Listed(b) == Matching(sweep.listing, SweepPrefixes(sweep.fn)[b])

\* the entries of bucket b the remote still lists
Present(b) == Matching(Children(folders, sweep.parent_id), SweepPrefixes(sweep.fn)[b])

Ids(s) == {s[i].id : i \in 1..Len(s)}

\* entries of bucket b that were listed and are gone
Gone(b) == SelectSeq(Listed(b), LAMBDA f : f.id \notin Ids(Present(b)))

\* delete calls of this sweep on entry id
Attempts(id) == Cardinality({i \in 1..Len(sweep.attempted) : sweep.attempted[i] = id})

\* delete calls of this sweep on entries of bucket b
BucketAttempts(b) ==
    Cardinality({i \in 1..Len(sweep.attempted) : sweep.attempted[i] \in Ids(Listed(b))})

\* position of entry id in the sweep's listing
ListPos(id) == CHOOSE i \in 1..Len(sweep.listing) : sweep.listing[i].id = id

\* C1: a sweep whose deletes all succeed deletes exactly max(0, N-k) entries of
\* each bucket and leaves the k entries with the largest createdAt, for every
\* keep count k >= 0 (k = 0 deletes every matched entry).
C1_DeletesAllButNewestK ==
    (SweepListed /\ sweep.pc = "returned") =>
        \A b \in 1..2 :
            LET N == Len(Listed(b))
                k == sweep.keep[b]
            IN  /\ BucketAttempts(b) = Max(0, N - k)
                /\ Len(Present(b)) = Min(N, k)
                /\ \A i \in 1..Len(Gone(b)) : \A j \in 1..Len(Present(b)) :
                        DateKey(Gone(b)[i]) <= DateKey(Present(b)[j])

\* C1 restricted to keep counts k >= 1 (what the same statement gives when the
\* k = 0 case is left out)
C1_HoldsForPositiveKeep ==
    (SweepListed /\ sweep.pc = "returned") =>
        \A b \in 1..2 :
            LET N == Len(Listed(b))
                k == sweep.keep[b]
            IN  k >= 1 =>
                /\ BucketAttempts(b) = Max(0, N - k)
                /\ Len(Present(b)) = Min(N, k)
                /\ \A i \in 1..Len(Gone(b)) : \A j \in 1..Len(Present(b)) :
                        DateKey(Gone(b)[i]) <= DateKey(Present(b)[j])

\* C2: at every point of a sweep, an entry it has deleted is never newer than an
\* entry of the same bucket that is still there; with equal createdAt the deleted
\* one comes first in the remote listing.
C2_DeletedNeverNewerThanKept ==
    SweepListed =>
        \A b \in 1..2 :
            \A i \in 1..Len(Gone(b)) : \A j \in 1..Len(Present(b)) :
                LET d == Gone(b)[i]
                    r == Present(b)[j]
                IN  \/ DateKey(d) < DateKey(r)
                    \/ DateKey(d) = DateKey(r) /\ ListPos(d.id) < ListPos(r.id)

\* a finished sweep deleted one of two entries with the same createdAt
C2_Witness ==
    /\ SweepListed
    /\ sweep.pc = "returned"
    /\ \E b \in 1..2 :
        \E i \in 1..Len(Gone(b)) : \E j \in 1..Len(Present(b)) :
            DateKey(Gone(b)[i]) = DateKey(Present(b)[j])

\* C3: a bucket with no more matched entries than its keep count gets no delete
\* call, and the sweep raises nothing while it works on that bucket.
C3_NoDeleteAtOrBelowKeep ==
    SweepListed =>
        \A b \in 1..2 :
            Len(Listed(b)) <= sweep.keep[b] =>
                /\ BucketAttempts(b) = 0
                /\ ~(sweep.pc = "raised" /\ sweep.bucket = b)

\* a finished sweep left alone a non-empty bucket that was not over its keep count
C3_Witness ==
    /\ SweepListed
    /\ sweep.pc = "returned"
    /\ \E b \in 1..2 :
        /\ Len(Listed(b)) >= 1
        /\ Len(Listed(b)) <= sweep.keep[b]
        /\ Len(Present(b)) = Len(Listed(b))

\* the sweep is over, by return or by exception
SweepOver == sweep.pc \in {"returned", "raised"}

\* C8: a failed delete does not stop the sweep: every stale entry of every bucket
\* gets exactly one delete attempt, and the run is not aborted by the failure.
C8_FailedDeleteDoesNotStopSweep ==
    (SweepListed /\ SweepOver) =>
        /\ \A b \in 1..2 :
            LET stale == Stale(sweep.listing, SweepPrefixes(sweep.fn)[b], sweep.keep[b])
            IN  \A i \in 1..Len(stale) : Attempts(stale[i].id) = 1
        /\ sweep.failed # <<>> => (sweep.pc = "returned" /\ pc # "aborted")

\* C9: the same sweep run again right after a sweep whose deletes all succeeded
\* issues no delete call.
C9_SecondSweepDeletesNothing ==
    sweep.round = 2 => sweep.attempted = <<>>

\* the second sweep returned after a first sweep that deleted something
C9_Witness ==
    /\ sweep.round = 2
    /\ sweep.pc = "returned"
    /\ \E i \in 1..Len(log) : log[i].op = "delete"

(* ======================================================================== *)
(* Properties of the presence checks of a run                                 *)
(* ======================================================================== *)
\* this step issues the remote call c as its last call
Issues(op) == Len(log') > Len(log) /\ log'[Len(log')].op = op

\* C4: for the Docker set, the storage snapshot and the storage monthly set, no
\* create-folder call and no upload call is issued for a set whose name a folder
\* under the category's remote parent already has when the run reaches the set.
C4_NoCreateNoUploadWhenNamePresent ==
    [][ /\ (Issues("create") /\ pc \in CreatePcs \ {"bw_create"})
            => ~HasName(Children(folders, ParentAt(pc)), SetAt(pc).name)
        /\ (Issues("upload") /\ pc \in UploadPcs)
            => Cardinality({i \in 1..Len(Children(folders, ParentAt(pc))) :
                              Children(folders, ParentAt(pc))[i].name = SetAt(pc).name}) = 1
      ]_vars

\* the same for the two storage sets alone, which the code guards with cloud_has_folder
C4_HoldsForStorageSets ==
    [][ /\ (Issues("create") /\ pc \in {"snapshot_create", "monthly_create"})
            => ~HasName(Children(folders, ParentAt(pc)), SetAt(pc).name)
        /\ (Issues("upload") /\ pc \in {"snapshot_upload", "monthly_upload"})
            => Cardinality({i \in 1..Len(Children(folders, ParentAt(pc))) :
                              Children(folders, ParentAt(pc))[i].name = SetAt(pc).name}) = 1
      ]_vars

\* C5: in the Bitwarden phase a local .json file is uploaded only if the resolved
\* bitwarden folder holds no file of exactly that name.
C5_NoUploadOfPresentExport ==
    [][ (Issues("upload") /\ pc = "bw_loop")
            => ~HasName(Children(files, cloud_folder_id), log'[Len(log')].name) ]_vars

(* ======================================================================== *)
(* Properties of upload_file                                                  *)
(* ======================================================================== *)
AllTransport(h, n) == \A i \in 1..n : h[i] \in TransportErrors

\* C6: an upload makes at most 3 attempts; it returns the ack of attempt j+1 after
\* j transport failures (j < 3), with exactly j+1 attempts and j retry delays; after
\* 3 transport failures it fails with the failure of the 3rd attempt.
C6_RetriesThenAckOrTerminalFailure ==
    LET n == Len(up.hist) IN
    /\ n <= 3
    /\ up.opens <= 3
    /\ up.pc = "return" =>
        /\ n >= 1
        /\ up.hist[n] = "ack"
        /\ AllTransport(up.hist, n - 1)
        /\ up.attempt = n
        /\ up.opens = n
        /\ up.delays = n - 1
        /\ up.result = "ack"
    /\ (n >= 1 /\ up.hist[n] = "ack") => up.pc \in {"finally", "return"}
    /\ (n = 3 /\ AllTransport(up.hist, 3) /\ up.pc \notin {"sleep", "finally"}) =>
        /\ up.pc \in {"raise", "raised"}
        /\ up.error = [exc |-> up.hist[3], attempt |-> 3]

\* an upload returns the ack of its third attempt after two transport failures
C6_Witness ==
    /\ up.pc = "return"
    /\ Len(up.hist) = 3
    /\ up.delays = 2

\* C7: an HTTP error response on any attempt is the upload's last attempt: no
\* retry delay follows it and the upload ends in a terminal failure.
C7_HttpErrorIsTerminal ==
    \A i \in 1..Len(up.hist) :
        up.hist[i] = "HTTPError" =>
            /\ i = Len(up.hist)
            /\ up.delays = i - 1
            /\ up.pc \in {"finally", "raise", "raised"}
            /\ up.after = "raise"
            /\ up.error = [exc |-> "HTTPError", attempt |-> i]

\* an upload failed on an HTTP error at its second attempt, after a transport failure
C7_Witness ==
    /\ up.pc = "raised"
    /\ Len(up.hist) = 2
    /\ up.hist[2] = "HTTPError"
    /\ pc = "aborted"

(* ======================================================================== *)
(* Properties of the Bitwarden phase                                          *)
(* ======================================================================== *)
\* the Bitwarden phase ran to its end and its sweep returned
BitwardenPhaseOver ==
    /\ pc = "done"
    /\ sweep.fn = "cleanup_bitwarden_backups"
    /\ sweep.pc = "returned"

\* C10: the Bitwarden sweep lists the files of the resolved bitwarden folder, the
\* one the exports were uploaded into, and leaves it with the newest keep files:
\* after the phase that folder holds no more than keep files.
C10_BitwardenFolderPruned ==
    /\ \A i \in 1..Len(log) :
        log[i].op = "list_files" => log[i].target = cloud_folder_id
    /\ BitwardenPhaseOver => Len(Children(files, cloud_folder_id)) <= KEEP_BITWARDEN

(* ======================================================================== *)
(* Properties of one backup set: order of uploads and of the sweep          *)
(* ======================================================================== *)
\* the upload calls of this run into remote folder t, in the order issued
UploadsTo(calls, t) == SelectSeq(calls, LAMBDA c : c.op = "upload" /\ c.target = t)

InNameOrder(calls) ==
    \A i, j \in 1..Len(calls) : i < j => NameLess(calls[i].name, calls[j].name)

\* every call of calls has put its file into the folder it was sent to
AllAcknowledged(calls) ==
    \A i \in 1..Len(calls) : HasName(Children(files, calls[i].target), calls[i].name)

\* C11: within one backup set the files are uploaded one at a time in the order
\* of their names: an upload call is issued only when no upload is in progress
\* and every earlier file of the set is acknowledged, and the set's sweep starts
\* only when every file of the set is acknowledged.
C11_OneAtATimeInNameOrderThenSweep ==
    [][ /\ Issues("upload") =>
            /\ up.pc = "idle"
            /\ InNameOrder(UploadsTo(log', log'[Len(log')].target))
            /\ AllAcknowledged(UploadsTo(log, log'[Len(log')].target))
        /\ (pc \in UploadPcs /\ sweep' # sweep) =>
            /\ up.pc = "idle"
            /\ todo = <<>>
            /\ \A e \in SetAt(pc).entries :
                  e.is_file => HasName(Children(files, cloud_folder_id), e.name)
            /\ AllAcknowledged(UploadsTo(log, cloud_folder_id)) ]_vars

\* the Docker sweep starts after the two files of the set were uploaded
C11_Witness ==
    /\ sweep.fn = "cleanup_two_types"
    /\ sweep.pc = "list"
    /\ sweep.round = 0
    /\ Len(UploadsTo(log, cloud_folder_id)) = 2

(* ======================================================================== *)
(* Properties of a whole run                                                *)
(* ======================================================================== *)
\* the category a remote call belongs to: 0 login, 1 Docker, 2 Storage, 3 Bitwarden
CategoryOf(c) ==
    IF c.op = "login" THEN 0
    ELSE IF c.target = DOCKER_PARENT_FOLDER_ID THEN 1
    ELSE IF c.target = STORAGE_PARENT_FOLDER_ID THEN 2
    ELSE IF c.target = BITWARDEN_PARENT_FOLDER_ID THEN 3
    ELSE IF c.op = "delete"
    THEN IF StartsWith(c.name, NIGHTLY) \/ StartsWith(c.name, BIWEEKLY) THEN 1
         ELSE IF StartsWith(c.name, MONTHLY) \/ StartsWith(c.name, SNAPSHOT) THEN 2
         ELSE 3
    ELSE IF c.target \in Ids(Children(folders, DOCKER_PARENT_FOLDER_ID)) THEN 1
    ELSE IF c.target \in Ids(Children(folders, STORAGE_PARENT_FOLDER_ID)) THEN 2
    ELSE 3

\* C12: a run logs in exactly once, as its first remote call; its later calls
\* come category by category in the order Docker, Storage, Bitwarden; and a login
\* response without a validation token ends the run with no further call.
C12_LoginFirstThenFixedOrder ==
    /\ pc # "start" => (log # <<>> /\ log[1].op = "login")
    /\ \A i \in 2..Len(log) : log[i].op # "login"
    /\ \A i \in 1..(Len(log) - 1) : CategoryOf(log[i]) <= CategoryOf(log[i + 1])
    /\ validation_key # "key" => Len(log) <= 1
    /\ validation_key = "None" => pc = "aborted"

\* a finished run that issued calls of all three categories
C12_Witness ==
    /\ pc = "done"
    /\ \A k \in 1..3 : \E i \in 1..Len(log) : CategoryOf(log[i]) = k

\* the calls of this run on the Storage parent itself, in the order issued
StorageCalls == SelectSeq(log, LAMBDA c : c.target = STORAGE_PARENT_FOLDER_ID)

CountOf(calls, op) == Cardinality({i \in 1..Len(calls) : calls[i].op = op})

\* the candidates upload_new_storage_backups finds locally
StorageCandidates ==
    IF local.storage.exists THEN {latest_snapshot, latest_monthly} \ {NoDir} ELSE {}

\* upload_new_storage_backups has returned
StoragePhaseOver ==
    /\ pc \in {"bitwarden", "bw_create", "bw_loop", "finish", "done"}
    /\ sweep.pc \in {"idle", "returned"}

\* C13: each of the two Storage candidates is checked on its own and is created
\* exactly when the listing of its check lacks its name; a create is preceded by
\* the candidate's check and followed by the candidate's own sweep, so a Storage
\* phase that returns has listed once per candidate and once more per upload.
C13_StorageCandidatesIndependent ==
    /\ [][ (pc \in CheckPcs /\ SubIdle /\ Issues("list") /\ pc' # "aborted") =>
              /\ pc' \in CreatePcs <=>
                    ~HasName(Children(folders, STORAGE_PARENT_FOLDER_ID), SetAt(pc).name)
              /\ pc' \in CreatePcs => SetAt(pc') = SetAt(pc)
              /\ pc' \notin CreatePcs => pc' = After(pc) ]_vars
    /\ [](\A i \in 1..Len(StorageCalls) :
            StorageCalls[i].op = "create" =>
                /\ i > 1 /\ StorageCalls[i - 1].op = "list"
                /\ i < Len(StorageCalls) => StorageCalls[i + 1].op = "list")
    /\ [](StoragePhaseOver =>
            CountOf(StorageCalls, "list") =
                Cardinality(StorageCandidates) + CountOf(StorageCalls, "create"))

\* both candidates were uploaded and each upload had its sweep
C13_Witness ==
    /\ StoragePhaseOver
    /\ CountOf(StorageCalls, "create") = 2
    /\ CountOf(StorageCalls, "list") = 4

\* upload_file has ended, or is about to end, in a RuntimeError
TerminalFailure == up.error # NoExc

\* C14: once the upload of a file has ended in a terminal failure, the run issues
\* no further remote call, starts no sweep, takes no further file of the set and
\* changes nothing remotely; it ends aborted.
C14_TerminalFailureStopsRun ==
    /\ [][ (TerminalFailure /\ run' = run) =>
              /\ log' = log
              /\ sweep' = sweep
              /\ todo' = todo
              /\ folders' = folders /\ files' = files
              /\ pc' \in {pc, "aborted"} ]_vars
    /\ [](up.pc = "raised" => pc = "aborted")

\* the first file of the Docker set failed for good; the rest of the set was not taken
C14_Witness ==
    /\ up.pc = "raised"
    /\ pc = "aborted"
    /\ up.folder_id = cloud_folder_id
    /\ \E i \in 1..Len(todo) : todo[i].is_file
    /\ sweep.pc = "idle"

(* ======================================================================== *)
(* Properties of upload_file: file handles and delays                       *)
(* ======================================================================== *)
\* C15: a file handle lives within one attempt: every attempt opens the file
\* anew, at most one handle is open, and a handle is open exactly from the open
\* of an attempt to the end of its finally clause, so none is open between
\* attempts nor when upload_file returns or raises.
C15_HandleScopedToAttempt ==
    /\ up.fh \in {0, 1}
    /\ up.fh = 1 <=> up.pc \in {"post", "sleep", "finally"}
    /\ up.opens = Len(up.hist) + (IF up.pc = "post" THEN 1 ELSE 0)
    /\ up.pc # "idle" => up.opens = up.attempt - (IF up.pc = "try" THEN 1 ELSE 0)

\* upload_file raises after a transport failure and an HTTP error: two opens, no handle left
C15_Witness ==
    /\ up.pc = "raised"
    /\ up.opens = 2
    /\ up.error.exc = "HTTPError"
    /\ up.fh = 0

\* upload_file has ended: it is about to return, or has raised
UploadEnded == up.pc \in {"return", "raise", "raised"}

\* C16: the retry delay occurs only between two attempts: an upload that has
\* ended after n attempts has slept n-1 times (twice when all three attempts
\* failed with transport failures), never after its last attempt.
C16_DelaysOnlyBetweenAttempts ==
    UploadEnded =>
        /\ up.delays = Len(up.hist) - 1
        /\ up.slept = RETRY_DELAY * (Len(up.hist) - 1)

\* what upload_file does: one delay after every transport failure, the last included
C16_DelayAfterEveryTransportFailure ==
    UploadEnded =>
        up.delays = Cardinality({i \in 1..Len(up.hist) : up.hist[i] \in TransportErrors})

\* an upload ended by three transport failures has slept three times
C16_ThreeDelaysReached ==
    /\ up.pc = "raised"
    /\ AllTransport(up.hist, MAX_UPLOAD_RETRIES)
    /\ up.delays = MAX_UPLOAD_RETRIES

(* ======================================================================== *)
(* Frame of the retention sweep                                             *)
(* ======================================================================== *)
\* name begins with the characters of prefix
HasPrefix(name, prefix) ==
    /\ Len(name) >= Len(prefix)
    /\ \A i \in 1..Len(prefix) : name[i] = prefix[i]

\* the listed entries whose name begins with the prefix of bucket b, and nothing else
OwnEntries(b) ==
    SelectSeq(sweep.listing, LAMBDA f : HasPrefix(f.name, SweepPrefixes(sweep.fn)[b]))

InSomeBucket(name) == \E b \in 1..2 : HasPrefix(name, SweepPrefixes(sweep.fn)[b])

\* C17: a two-bucket sweep issues delete calls only for entries whose name starts
\* with one of its two prefixes; every listed entry outside both buckets stays as
\* it was; and the entries a returned sweep deleted from a bucket are those that
\* the bucket's own entries and own keep count determine, whatever the other
\* bucket holds and whatever its keep count is.
C17_SweepTouchesOnlyOwnBuckets ==
    TwoBucketSweep =>
        /\ \A i \in 1..Len(log) : log[i].op = "delete" => InSomeBucket(log[i].name)
        /\ \A i \in 1..Len(sweep.listing) :
              ~InSomeBucket(sweep.listing[i].name) =>
                  \E j \in 1..Len(Children(folders, sweep.parent_id)) :
                      Children(folders, sweep.parent_id)[j] = sweep.listing[i]
        /\ (SweepListed /\ sweep.pc = "returned") =>
              \A b \in 1..2 :
                  {id \in Ids(sweep.listing) : id \notin Ids(Children(folders, sweep.parent_id))}
                      \cap Ids(OwnEntries(b))
                  = Ids(SliceBeforeLast(SortedByDate(OwnEntries(b)), sweep.keep[b]))

\* a returned sweep deleted from a bucket and left an entry of neither bucket alone
C17_Witness ==
    /\ SweepListed
    /\ sweep.pc = "returned"
    /\ sweep.round = 1
    /\ sweep.attempted # <<>>
    /\ \E i \in 1..Len(sweep.listing) :
          /\ ~InSomeBucket(sweep.listing[i].name)
          /\ sweep.listing[i].id \in Ids(Children(folders, sweep.parent_id))

(* ======================================================================== *)
(* The sweep and the generation that triggered it                           *)
(* ======================================================================== *)
\* the sweep that follows the upload of a set is running, or is over while main
\* still holds the id of the folder it created for that set
SweepOfCreatedFolder ==
    /\ TwoBucketSweep
    /\ sweep.round = 0
    /\ \/ sweep.pc \in {"list", "loop", "raised"}
       \/ sweep.pc = "returned" /\ pc \in {"storage", "monthly_check", "bitwarden"}

\* the entries under the swept parent that are the folder main created
CreatedFolder ==
    SelectSeq(Children(folders, sweep.parent_id), LAMBDA f : f.id = cloud_folder_id)

\* the remote gave the created folder a later createdAt than any other entry has
CreatedIsNewest ==
    \A i \in 1..Len(Children(folders, sweep.parent_id)) :
        LET f == Children(folders, sweep.parent_id)[i] IN
        f.id # cloud_folder_id => \A c \in {CreatedFolder[j] : j \in 1..Len(CreatedFolder)} :
                                      f.date < c.date

\* C18: with keep counts of at least 1 and a remote that dates a new folder later
\* than the existing ones, the folder a run created and filled is still listed
\* under its parent, with its files, during and after the sweep that follows its
\* upload.
C18_SweepKeepsCreatedFolder ==
    (SweepOfCreatedFolder /\ CreatedIsNewest /\ \A b \in 1..2 : sweep.keep[b] >= 1) =>
        /\ Len(CreatedFolder) = 1
        /\ \A e \in SetAt(IF sweep.parent_id = DOCKER_PARENT_FOLDER_ID THEN "docker_upload"
                           ELSE IF HasPrefix(CreatedFolder[1].name, SNAPSHOT)
                           THEN "snapshot_upload" ELSE "monthly_upload").entries :
              e.is_file => HasName(Children(files, cloud_folder_id), e.name)

\* the sweep after the upload has deleted an older folder of the bucket the
\* created folder is in, and the created folder is still there
C18_Witness ==
    /\ SweepOfCreatedFolder
    /\ sweep.pc = "returned"
    /\ sweep.attempted # <<>>
    /\ Len(CreatedFolder) = 1
    /\ \E b \in 1..2 :
          /\ HasPrefix(CreatedFolder[1].name, SweepPrefixes(sweep.fn)[b])
          /\ \E i \in 1..Len(sweep.attempted) : sweep.attempted[i] \in Ids(OwnEntries(b))

(* ======================================================================== *)
(* A storage set left incomplete by a failed run                            *)
(* ======================================================================== *)
StorageKinds == {"snapshot", "monthly"}

StorageSet(k) == IF k = "snapshot" THEN latest_snapshot ELSE latest_monthly

\* a folder created during the runs carries the name of candidate k and lacks
\* one of the candidate's files
Incomplete(k) ==
    /\ StorageSet(k) # NoDir
    /\ \E i \in 1..Len(Children(folders, STORAGE_PARENT_FOLDER_ID)) :
          LET f == Children(folders, STORAGE_PARENT_FOLDER_ID)[i] IN
          /\ f.id >= FirstNewId
          /\ f.name = StorageSet(k).name
          /\ \E e \in StorageSet(k).entries :
                e.is_file /\ ~HasName(Children(files, f.id), e.name)

\* C19: a storage set whose folder a run created and whose upload then failed for
\* good stays incomplete in every later run with the same local data: the run
\* finds the name, never reaches the set's create-folder call or its upload loop,
\* issues no create and no upload call for it, and no sweep removes the folder.
C19_IncompleteSetNeverCompleted ==
    [][ \A k \in StorageKinds :
          (Incomplete(k) /\ pc # k \o "_upload") =>
              /\ Incomplete(k)'
              /\ pc' \notin {k \o "_create", k \o "_upload"}
              /\ ~(Issues("create") /\ log'[Len(log')].name = StorageSet(k).name)
              /\ ~(Issues("upload") /\ pc' = k \o "_upload") ]_vars

\* a second run has ended normally, having checked the snapshot that the first
\* run left incomplete
C19_Witness ==
    /\ run = 2
    /\ pc = "done"
    /\ Incomplete("snapshot")
    /\ CountOf(StorageCalls, "list") >= 1

====
